---- MODULE Spec2Model ----
(***************************************************************************)
(* Model of src/backend/main.py: the token buffer (get_token,              *)
(* verify_token), the job store (run_ocr, get_status, get_results) and the *)
(* background batch runner (convert_multiple_images_to_text).              *)
(*                                                                         *)
(* The server runs on one asyncio event loop: the code between two awaits  *)
(* is one atomic step.  The awaits are `await file.read()` in run_ocr and  *)
(* `await loop.run_in_executor(...)` in the runner; get_token, get_status, *)
(* get_results and verify_token contain none.                              *)
(*                                                                         *)
(* secrets.token_urlsafe(32), secrets.token_hex(8) and uuid4() return      *)
(* fresh values: the j-th issued token is the string <<j>>, the uid of the *)
(* r-th accepted upload is r and its n-th staged path is <<r, n>>.         *)
(***************************************************************************)
EXTENDS Integers, Sequences, FiniteSets, TLC

\* --- Configuration (main.py:41, main.py:47) ---
N_MAX_VALID_TOKENS == 20
TOKEN_EXPIRY_SEC == 300

\* --- Bounds of the model ---
MaxIssued == 22      \* get_token calls in SpecTokens (more than the capacity)
MaxLate == 1         \* in SpecTokens the clock takes the values 0 and TOKEN_EXPIRY_SEC + 0..MaxLate
MaxSessions == 1     \* get_token calls in Spec and SpecBatch
MaxJobs == 2         \* accepted uploads in Spec
MaxFiles == 2        \* files per upload in Spec
MaxBatch == 9        \* files of the one upload in SpecBatch
MaxAnomalies == 2    \* recognitions per upload in SpecBatch that are not one clean result

VARIABLES
  TOKEN_BUFFER,  \* main.py:73, deque of [token, expires], oldest first
  jobs,          \* main.py:79, uid -> Job
  now,           \* time.time()
  issued,        \* history: issued[j] is the time of the j-th get_token
  tasks,         \* tasks[r]: the r-th accepted upload and its background task
  disk,          \* the paths that exist under UPLOAD_DIR
  taken,         \* history: the uids a get_results has deleted
  out            \* the HTTP response (or dependency result) of the step just taken

vars == <<TOKEN_BUFFER, jobs, now, issued, tasks, disk, taken, out>>

\* --- IEEE-754 binary64 for Job.progress ---
\* A float in [0, 4) is hi * 2^29 + lo in units of 2^-57, which holds 1/k and
\* its partial sums exactly for 1 <= k <= 32; round to nearest, ties to even.
LIMB == 2^29

RECURSIVE UlpOf(_)
UlpOf(hi) == IF hi < 2^24 THEN 1 ELSE 2 * UlpOf(hi \div 2)

\* frac describes the part of the exact value below one unit:
\* 0 none, 1 less than half a unit, 2 half a unit, 3 more.
FloatRound(hi, lo, frac) ==
  LET ulp  == UlpOf(hi)
      rem  == lo % ulp
      base == lo - rem
      half == ulp \div 2
      cmp  == IF ulp = 1 THEN frac
              ELSE IF rem < half THEN (IF rem = 0 /\ frac = 0 THEN 0 ELSE 1)
              ELSE IF rem = half THEN (IF frac = 0 THEN 2 ELSE 3)
              ELSE 3
      up   == cmp = 3 \/ (cmp = 2 /\ (base \div ulp) % 2 = 1)
      lo2  == IF up THEN base + ulp ELSE base
  IN  [hi |-> hi + lo2 \div LIMB, lo |-> lo2 % LIMB]

FloatAdd(a, b) ==
  LET lo == a.lo + b.lo
  IN  FloatRound(a.hi + b.hi + lo \div LIMB, lo % LIMB, 0)

\* 1 / k for an int k >= 1
FloatRecip(k) ==
  LET t1 == (2^28 % k) * 2^15
      t2 == (t1 % k) * 2^14
      r3 == t2 % k
      frac == IF r3 = 0 THEN 0
              ELSE IF 2 * r3 < k THEN 1
              ELSE IF 2 * r3 = k THEN 2 ELSE 3
  IN  FloatRound(2^28 \div k, (t1 \div k) * 2^14 + t2 \div k, frac)

Float0 == [hi |-> 0, lo |-> 0]
Float1 == [hi |-> 2^28, lo |-> 0]
FloatLe(a, b) == a.hi < b.hi \/ (a.hi = b.hi /\ a.lo <= b.lo)

\* --- Token buffer ---
NoResponse == [op |-> "none"]

\* a deque without maxlen: nothing is ever evicted
DequeAppend_Unbounded(buf, e) == Append(buf, e)

\* deque(maxlen=N_MAX_VALID_TOKENS).append
DequeAppend(buf, e) ==
  IF Len(buf) < N_MAX_VALID_TOKENS THEN Append(buf, e)
  ELSE Append(Tail(buf), e)

\* The literal "Bearer " as a piece of a header; a header is a sequence of
\* pieces, each this literal or a whole token string, and a token string j
\* is the one-piece sequence <<j>>.
BEARER == 0
\* a string that get_token never returns
JUNK == -1

\* authorization.replace("Bearer ", "")
StripBearer(authorization) == SelectSeq(authorization, LAMBDA piece : piece # BEARER)

\* next((t for t in TOKEN_BUFFER if t["token"] == token), None): 0 for None
RECURSIVE FirstMatch(_, _, _)
FirstMatch(buf, token, n) ==
  IF n > Len(buf) THEN 0
  ELSE IF buf[n].token = token THEN n
  ELSE FirstMatch(buf, token, n + 1)

\* verify_token with `current_time >= valid_token["expires"]`
verify_token_ExpiresEarly(authorization, buf, current_time) ==
  LET token == StripBearer(authorization)
      n     == FirstMatch(buf, token, 1)
  IN  IF n = 0 THEN 401
      ELSE IF current_time >= buf[n].expires THEN 401
      ELSE 200

\* verify_token without the expiry check
verify_token_NoExpiry(authorization, buf, current_time) ==
  LET token == StripBearer(authorization)
      n     == FirstMatch(buf, token, 1)
  IN  IF n = 0 THEN 401 ELSE 200

\* verify_token: 200 for `return True`, 401 for either HTTPException
verify_token(authorization, buf, current_time) ==
  LET token == StripBearer(authorization)
      n     == FirstMatch(buf, token, 1)
  IN  IF n = 0 THEN 401
      ELSE IF current_time > buf[n].expires THEN 401
      ELSE 200

\* an issue that also renews every entry already in the buffer
get_token_Renews ==
  LET new_token == <<Len(issued) + 1>>
      expiry    == now + TOKEN_EXPIRY_SEC
      renewed   == [n \in 1..Len(TOKEN_BUFFER) |-> [TOKEN_BUFFER[n] EXCEPT !.expires = expiry]]
  IN  /\ TOKEN_BUFFER' = DequeAppend(renewed, [token |-> new_token, expires |-> expiry])
      /\ issued' = Append(issued, now)
      /\ out' = [op |-> "get_token", code |-> 200, token |-> new_token]
      /\ UNCHANGED <<jobs, now, tasks, disk, taken>>

\* GET /api/get-token
get_token ==
  LET new_token == <<Len(issued) + 1>>
      expiry    == now + TOKEN_EXPIRY_SEC
  IN  /\ TOKEN_BUFFER' = DequeAppend(TOKEN_BUFFER, [token |-> new_token, expires |-> expiry])
      /\ issued' = Append(issued, now)
      /\ out' = [op |-> "get_token", code |-> 200, token |-> new_token]
      /\ UNCHANGED <<jobs, now, tasks, disk, taken>>

\* The headers a client sends.  The strings it tries: one nobody issued, the
\* first token ever issued, the token evicted last, and the oldest and the
\* newest token in the buffer; each bare, and the newest token and the
\* unissued string after "Bearer " and before it; and "Bearer " alone.
Candidates ==
  LET n == Len(issued)
  IN  {JUNK} \cup ({1, n - N_MAX_VALID_TOKENS, n - N_MAX_VALID_TOKENS + 1, n} \cap (1..n))
Headers ==
  {<<BEARER>>} \cup {<<t>> : t \in Candidates}
    \cup UNION {{<<BEARER, t>>, <<t, BEARER>>} : t \in {JUNK, Len(issued)}}

\* The dependency of POST /api/ocr run on its own
\* a validation that sweeps expired entries out of the buffer
verify_token_call_Sweeps(authorization) ==
  /\ out' = [op |-> "verify_token", token |-> StripBearer(authorization),
             code |-> verify_token(authorization, TOKEN_BUFFER, now)]
  /\ TOKEN_BUFFER' = SelectSeq(TOKEN_BUFFER, LAMBDA entry : now <= entry.expires)
  /\ UNCHANGED <<jobs, now, issued, tasks, disk, taken>>

verify_token_call(authorization) ==
  /\ out' = [op |-> "verify_token", token |-> StripBearer(authorization),
             code |-> verify_token(authorization, TOKEN_BUFFER, now)]
  /\ UNCHANGED <<TOKEN_BUFFER, jobs, now, issued, tasks, disk, taken>>

\* time.time() moves on
Times == {0} \cup {TOKEN_EXPIRY_SEC + d : d \in 0..MaxLate}
Tick(t) ==
  /\ t > now
  /\ now' = t
  /\ out' = NoResponse
  /\ UNCHANGED <<TOKEN_BUFFER, jobs, issued, tasks, disk, taken>>

\* --- Job store ---
\* Job(): main.py:58-66 with the defaults of the dataclass
Job(uid) ==
  [uid |-> uid, status |-> "processing", messages |-> <<"Already started.">>,
   progress |-> Float0, results |-> <<>>]

\* jobs[uid] = job
JobsPut(store, uid, job) == [u \in DOMAIN store \cup {uid} |-> IF u = uid THEN job ELSE store[u]]
\* get_results without `del jobs[uid]`
JobsDel_Keep(store, uid) == store

\* del jobs[uid]
JobsDel(store, uid) == [u \in DOMAIN store \ {uid} |-> store[u]]

\* UPLOAD_DIR / f"{secrets.token_hex(8)}_{file.filename}": the n-th path of upload r
LocalPath(r, n) == <<r, n>>

\* The uploaded file names, and the file lists of a request
Names == {"a.png", "b.png"}
RECURSIVE SeqsUpTo(_, _)
SeqsUpTo(S, n) ==
  IF n = 0 THEN {<<>>}
  ELSE LET shorter == SeqsUpTo(S, n - 1)
       IN  shorter \cup {Append(q, x) : q \in {q2 \in shorter : Len(q2) = n - 1}, x \in S}
Uploads == SeqsUpTo(Names, MaxFiles)
\* one long upload: a.png, b.png, a.png, ...
LongUpload(n) == [j \in 1..n |-> IF j % 2 = 1 THEN "a.png" ELSE "b.png"]
LongUploads == {LongUpload(n) : n \in 0..MaxBatch}

\* the store is rebuilt with fresh jobs when a job is added
TriggerOcr_ResetsStore(r, task) ==
  /\ jobs' = [u \in DOMAIN jobs \cup {r} |-> Job(u)]
  /\ tasks' = [tasks EXCEPT ![r] = [task EXCEPT !.pc = "scheduled"]]
  /\ out' = [op |-> "run_ocr", code |-> 202, task_uid |-> r]

\* new_task = Job(); jobs[new_task.uid] = new_task; background_tasks.add_task(...)
TriggerOcr(r, task) ==
  /\ jobs' = JobsPut(jobs, r, Job(r))
  /\ tasks' = [tasks EXCEPT ![r] = [task EXCEPT !.pc = "scheduled"]]
  /\ out' = [op |-> "run_ocr", code |-> 202, task_uid |-> r]

\* token is history: the string that passed verify_token for this request
NewTask(files) ==
  [pc |-> "staging", files |-> files, file_mappings |-> <<>>, idx |-> 0,
   single_progress_step |-> Float0, predicted |-> <<>>, error |-> "none",
   token |-> <<>>]

\* POST /api/ocr up to the first `await file.read()`: the dependency
\* verify_token, then open() of the first local path; with no file the loop
\* is skipped and the job is created at once.
run_ocr(authorization, files) ==
  LET r == Len(tasks) + 1 IN
  IF verify_token(authorization, TOKEN_BUFFER, now) = 401
  THEN /\ out' = [op |-> "run_ocr", code |-> 401, token |-> StripBearer(authorization)]
       /\ UNCHANGED <<TOKEN_BUFFER, jobs, now, issued, tasks, disk, taken>>
  ELSE IF files = <<>>
  THEN /\ jobs' = JobsPut(jobs, r, Job(r))
       /\ tasks' = Append(tasks, [NewTask(files) EXCEPT !.pc = "scheduled",
                                                       !.token = StripBearer(authorization)])
       /\ out' = [op |-> "run_ocr", code |-> 202, task_uid |-> r]
       /\ UNCHANGED <<TOKEN_BUFFER, now, issued, disk, taken>>
  ELSE /\ tasks' = Append(tasks, [NewTask(files) EXCEPT !.token = StripBearer(authorization)])
       /\ disk' = disk \cup {LocalPath(r, 1)}
       /\ out' = NoResponse
       /\ UNCHANGED <<TOKEN_BUFFER, jobs, now, issued, taken>>

\* POST /api/ocr from the return of one `await file.read()` to the next, or
\* to the response: write the content, record the mapping, open the next
\* path or create the job and add the background task.
run_ocr_read(r) ==
  /\ tasks[r].pc = "staging"
  /\ LET task == tasks[r]
         n    == Len(task.file_mappings) + 1
         staged == [task EXCEPT !.file_mappings = Append(@, <<task.files[n], LocalPath(r, n)>>)]
     IN  IF n < Len(task.files)
         THEN /\ tasks' = [tasks EXCEPT ![r] = staged]
              /\ disk' = disk \cup {LocalPath(r, n + 1)}
              /\ out' = NoResponse
              /\ UNCHANGED jobs
         ELSE /\ TriggerOcr(r, staged)
              /\ UNCHANGED disk
  /\ UNCHANGED <<TOKEN_BUFFER, now, issued, taken>>

\* --- Recognition ---
\* What ocr_engine.predict does: raise, or return a list of results
FAILED_TEXT == <<"(Failed. Please reduce the image size.)">>
Rec1 == [rec_texts |-> <<"hello", "world">>]
Rec2 == [rec_texts |-> <<"again">>]
Predictions ==
  {[raised |-> TRUE, results |-> <<>>], [raised |-> FALSE, results |-> <<>>],
   [raised |-> FALSE, results |-> <<Rec1>>], [raised |-> FALSE, results |-> <<Rec1, Rec2>>]}
Clean(prediction) == ~prediction.raised /\ Len(prediction.results) = 1
Kind(prediction) ==
  IF prediction.raised THEN "raised"
  ELSE IF prediction.results = <<>> THEN "empty" ELSE "text"

\* "\n".join(lines): a string is the sequence of its pieces
RECURSIVE Join(_, _)
Join(sep, lines) ==
  IF lines = <<>> THEN <<>>
  ELSE IF Len(lines) = 1 THEN <<lines[1]>>
  ELSE <<lines[1], sep>> \o Join(sep, Tail(lines))

\* _convert_image_to_text
convert_image_to_text(prediction) ==
  IF prediction.raised THEN FAILED_TEXT
  ELSE IF Len(prediction.results) = 0 THEN <<>>
  ELSE Join("\n", prediction.results[1].rec_texts)

\* --- Batch runner: convert_multiple_images_to_text ---
\* jobs[uid].messages = f"Processing {remote_filename}."
Processing(job, remote_filename) ==
  [job EXCEPT !.messages = <<"Processing ", remote_filename, ".">>]

\* the loop body dropping an item whose recognition raised
ItemDone_DropFailed(job, single_progress_step, remote_filename, markdown_text) ==
  IF markdown_text = FAILED_TEXT THEN job
  ELSE [job EXCEPT !.progress = FloatAdd(@, single_progress_step),
                   !.results = Append(@, <<remote_filename, markdown_text>>)]

\* the loop body without `jobs[uid].progress += single_progress_step`
ItemDone_NoIncrement(job, single_progress_step, remote_filename, markdown_text) ==
  [job EXCEPT !.results = Append(@, <<remote_filename, markdown_text>>)]

\* the loop body marking the job completed after every item
ItemDone_MarksCompleted(job, single_progress_step, remote_filename, markdown_text) ==
  [job EXCEPT !.progress = FloatAdd(@, single_progress_step),
              !.results = Append(@, <<remote_filename, markdown_text>>),
              !.status = "completed"]

\* jobs[uid].progress += single_progress_step; jobs[uid].results.append(...)
\* the new entry is put in front of the earlier ones
ItemDone_Prepends(job, single_progress_step, remote_filename, markdown_text) ==
  [job EXCEPT !.progress = FloatAdd(@, single_progress_step),
              !.results = <<(<<remote_filename, markdown_text>>)>> \o @]

ItemDone(job, single_progress_step, remote_filename, markdown_text) ==
  [job EXCEPT !.progress = FloatAdd(@, single_progress_step),
              !.results = Append(@, <<remote_filename, markdown_text>>)]

\* the completion step without `jobs[uid].progress = 1.0`
MarkCompleted_NoHardSet(job) ==
  [job EXCEPT !.messages = <<"Completed.">>, !.status = "completed"]

\* the completion step with the status flip left out
MarkCompleted_NoStatus(job) ==
  [job EXCEPT !.progress = Float1, !.messages = <<"Completed.">>]

\* mark task as completed
MarkCompleted(job) ==
  [job EXCEPT !.progress = Float1, !.messages = <<"Completed.">>, !.status = "completed"]

\* clean up: local_path.unlink(missing_ok=True) for every mapping
CleanUp(paths, file_mappings) ==
  paths \ {file_mappings[n][2] : n \in 1..Len(file_mappings)}

\* a runner that finds its job gone puts a fresh one back
Crash_Reinserts(r, error) ==
  /\ tasks' = [tasks EXCEPT ![r] = [@ EXCEPT !.pc = "crashed", !.error = error]]
  /\ jobs' = JobsPut(jobs, r, Job(r))
  /\ UNCHANGED disk

Crash(r, error) ==
  /\ tasks' = [tasks EXCEPT ![r] = [@ EXCEPT !.pc = "crashed", !.error = error]]
  /\ UNCHANGED <<jobs, disk>>

\* The background task from its start to the first run_in_executor await
runner_start(r) ==
  /\ tasks[r].pc = "scheduled"
  /\ LET task == tasks[r]
         k    == Len(task.file_mappings)
     IN  IF k = 0 THEN Crash(r, "ZeroDivisionError")
         ELSE IF r \notin DOMAIN jobs THEN Crash(r, "KeyError")
         ELSE /\ jobs' = [jobs EXCEPT ![r] = Processing(@, task.file_mappings[1][1])]
              /\ tasks' = [tasks EXCEPT ![r] =
                             [@ EXCEPT !.pc = "ocr", !.idx = 1,
                                       !.single_progress_step = FloatRecip(k)]]
              /\ UNCHANGED disk
  /\ out' = NoResponse
  /\ UNCHANGED <<TOKEN_BUFFER, now, issued, taken>>

\* The background task from the return of run_in_executor for item idx to the
\* next await, or to the end of the function
ocr_return(r, prediction) ==
  /\ tasks[r].pc = "ocr"
  /\ LET task == [tasks[r] EXCEPT !.predicted = Append(@, Kind(prediction))]
         k    == Len(task.file_mappings)
         remote_filename == task.file_mappings[task.idx][1]
         markdown_text   == convert_image_to_text(prediction)
     IN  IF r \notin DOMAIN jobs
         THEN /\ tasks' = [tasks EXCEPT ![r] = [task EXCEPT !.pc = "crashed", !.error = "KeyError"]]
              /\ UNCHANGED <<jobs, disk>>
         ELSE LET job == ItemDone(jobs[r], task.single_progress_step, remote_filename, markdown_text)
              IN  IF task.idx < k
                  THEN /\ jobs' = [jobs EXCEPT ![r] = Processing(job, task.file_mappings[task.idx + 1][1])]
                       /\ tasks' = [tasks EXCEPT ![r] = [task EXCEPT !.idx = @ + 1]]
                       /\ UNCHANGED disk
                  ELSE /\ jobs' = [jobs EXCEPT ![r] = MarkCompleted(job)]
                       /\ tasks' = [tasks EXCEPT ![r] = [task EXCEPT !.pc = "done"]]
                       /\ disk' = CleanUp(disk, task.file_mappings)
  /\ out' = NoResponse
  /\ UNCHANGED <<TOKEN_BUFFER, now, issued, taken>>

\* --- Polling endpoints ---
\* The uids a client can ask for: one no job ever had, and those run_ocr returned
NO_UID == 0
KnownUids == {NO_UID} \cup {r \in 1..Len(tasks) : tasks[r].pc # "staging"}

\* a status read that pops the job, as get_results does
get_status_Pops(uid) ==
  /\ IF uid \in DOMAIN jobs
     THEN /\ out' = [op |-> "get_status", code |-> 200, uid |-> uid, status |-> jobs[uid].status,
                     progress |-> jobs[uid].progress, messages |-> jobs[uid].messages]
          /\ jobs' = JobsDel(jobs, uid)
     ELSE /\ out' = [op |-> "get_status", code |-> 404, uid |-> uid]
          /\ UNCHANGED jobs
  /\ UNCHANGED <<TOKEN_BUFFER, now, issued, tasks, disk, taken>>

\* GET /api/get-status/{uid}
get_status(uid) ==
  /\ out' = IF uid \in DOMAIN jobs
            THEN [op |-> "get_status", code |-> 200, uid |-> uid, status |-> jobs[uid].status,
                  progress |-> jobs[uid].progress, messages |-> jobs[uid].messages]
            ELSE [op |-> "get_status", code |-> 404, uid |-> uid]
  /\ UNCHANGED <<TOKEN_BUFFER, jobs, now, issued, tasks, disk, taken>>

\* results are handed out only for a completed job
get_results_OnlyCompleted(uid) ==
  /\ IF uid \in DOMAIN jobs /\ jobs[uid].status = "completed"
     THEN /\ out' = [op |-> "get_results", code |-> 200, uid |-> uid, results |-> jobs[uid].results]
          /\ jobs' = JobsDel(jobs, uid)
          /\ taken' = taken \cup {uid}
     ELSE /\ out' = [op |-> "get_results", code |-> 404, uid |-> uid]
          /\ UNCHANGED <<jobs, taken>>
  /\ UNCHANGED <<TOKEN_BUFFER, now, issued, tasks, disk>>

\* GET /api/get-results/{uid}
get_results(uid) ==
  /\ IF uid \in DOMAIN jobs
     THEN /\ out' = [op |-> "get_results", code |-> 200, uid |-> uid, results |-> jobs[uid].results]
          /\ jobs' = JobsDel(jobs, uid)
          /\ taken' = taken \cup {uid}
     ELSE /\ out' = [op |-> "get_results", code |-> 404, uid |-> uid]
          /\ UNCHANGED <<jobs, taken>>
  /\ UNCHANGED <<TOKEN_BUFFER, now, issued, tasks, disk>>

Anomalies(task) == Cardinality({n \in 1..Len(task.predicted) : task.predicted[n] # "text"})

Init ==
  /\ TOKEN_BUFFER = <<>>
  /\ jobs = <<>>
  /\ now = 0
  /\ issued = <<>>
  /\ tasks = <<>>
  /\ disk = {}
  /\ taken = {}
  /\ out = NoResponse

NextTokens ==
  \/ (Len(issued) < MaxIssued /\ get_token)
  \/ \E authorization \in Headers : verify_token_call(authorization)
  \/ \E t \in Times : Tick(t)

SpecTokens == Init /\ [][NextTokens]_vars

\* The whole server at one instant of the clock: a few short uploads side by side
Next ==
  \/ (Len(issued) < MaxSessions /\ get_token)
  \/ \E authorization \in Headers, files \in Uploads :
        /\ IF verify_token(authorization, TOKEN_BUFFER, now) = 401
           THEN files = <<>>   \* the files of a rejected request are never read
           ELSE Len(tasks) < MaxJobs
        /\ run_ocr(authorization, files)
  \/ \E r \in 1..Len(tasks) : run_ocr_read(r)
  \/ \E r \in 1..Len(tasks) : runner_start(r)
  \/ \E r \in 1..Len(tasks), prediction \in Predictions : ocr_return(r, prediction)
  \/ \E uid \in KnownUids : get_status(uid)
  \/ \E uid \in KnownUids : get_results(uid)

Spec == Init /\ [][Next]_vars

\* The whole server at one instant of the clock: one long upload
NextBatch ==
  \/ (Len(issued) < MaxSessions /\ get_token)
  \/ \E authorization \in Headers, files \in LongUploads :
        /\ IF verify_token(authorization, TOKEN_BUFFER, now) = 401
           THEN files = <<>>   \* the files of a rejected request are never read
           ELSE Len(tasks) < 1
        /\ run_ocr(authorization, files)
  \/ \E r \in 1..Len(tasks) : run_ocr_read(r)
  \/ \E r \in 1..Len(tasks) : runner_start(r)
  \/ \E r \in 1..Len(tasks), prediction \in Predictions :
        /\ Clean(prediction) \/ Anomalies(tasks[r]) < MaxAnomalies
        /\ ocr_return(r, prediction)
  \/ \E uid \in KnownUids : get_status(uid)
  \/ \E uid \in KnownUids : get_results(uid)

SpecBatch == Init /\ [][NextBatch]_vars

\* The whole server with the clock moving: one short upload
NextAuth ==
  \/ (Len(issued) < MaxSessions /\ get_token)
  \/ \E t \in Times : Tick(t)
  \/ \E authorization \in Headers, files \in Uploads :
        /\ IF verify_token(authorization, TOKEN_BUFFER, now) = 401
           THEN files = <<>>   \* the files of a rejected request are never read
           ELSE Len(tasks) < 1
        /\ run_ocr(authorization, files)
  \/ \E r \in 1..Len(tasks) : run_ocr_read(r)
  \/ \E r \in 1..Len(tasks) : runner_start(r)
  \/ \E r \in 1..Len(tasks), prediction \in Predictions : ocr_return(r, prediction)
  \/ \E uid \in KnownUids : get_status(uid)
  \/ \E uid \in KnownUids : get_results(uid)

SpecAuth == Init /\ [][NextAuth]_vars

\* --- Properties ---
NumItems(r) == Len(tasks[r].files)
InStore(r) == r \in DOMAIN jobs
StagedOnDisk(r) == {path \in disk : path[1] = r}
Min(a, b) == IF a < b THEN a ELSE b

\* progress after n additions of step to 0.0
RECURSIVE FloatSum(_, _)
FloatSum(step, n) == IF n = 0 THEN Float0 ELSE FloatAdd(FloatSum(step, n - 1), step)

\* p is i/k to within 2^-24
FloatNear(p, i, k) == (p.hi \div 16) * k - i * 2^24 \in -k..k

\* C1: when the runner of a job with k >= 1 items has finished, the job (until
\* a get_results takes it) has exactly k result entries, progress exactly 1.0,
\* status "completed", and the i-th entry carries the name of the i-th upload.
C1_BatchCompletes ==
  \A r \in 1..Len(tasks) :
    (tasks[r].pc = "done" /\ NumItems(r) >= 1 /\ r \notin taken) =>
      /\ InStore(r)
      /\ Len(jobs[r].results) = NumItems(r)
      /\ jobs[r].progress = Float1
      /\ jobs[r].status = "completed"
      /\ \A i \in 1..NumItems(r) : jobs[r].results[i][1] = tasks[r].files[i]

\* a finished batch of 6 items (whose float sum of 1/6 is below 1.0) with a
\* raised, an empty and a clean recognition
C1_Witness ==
  /\ Len(tasks) = 1 /\ tasks[1].pc = "done" /\ InStore(1)
  /\ NumItems(1) = 6
  /\ {"raised", "empty", "text"} \subseteq {tasks[1].predicted[n] : n \in 1..6}
  /\ FloatSum(tasks[1].single_progress_step, 6) # Float1

\* C2: a successful get_results returns the results the job had and removes
\* the job in the same step; a taken uid is never in the store again, and
\* every later get_status or get_results for it answers 404.
C2_TakeOnce ==
  /\ [](\A uid \in taken : uid \notin DOMAIN jobs)
  /\ [][/\ (out'.op = "get_results" /\ out'.code = 200) =>
             /\ out'.uid \in DOMAIN jobs
             /\ out'.results = jobs[out'.uid].results
             /\ out'.uid \notin DOMAIN jobs'
        /\ (out'.op \in {"get_status", "get_results"} /\ out'.uid \in taken) =>
             out'.code = 404]_vars

\* a second get_results for a uid that was taken answers 404
C2_Witness ==
  /\ out.op = "get_results" /\ out.code = 404 /\ out.uid \in taken
  /\ tasks[out.uid].pc = "ocr"

\* C3: verify_token answers 200 or 401, and 200 exactly for a string that
\* get_token returned, whose entry is still in the buffer, at a time not
\* after its issue time plus TOKEN_EXPIRY_SEC.
WasIssued(token) == \E j \in 1..Len(issued) : token = <<j>>
InBuffer(token) == \E n \in 1..Len(TOKEN_BUFFER) : TOKEN_BUFFER[n].token = token
C3_ValidateIff ==
  out.op = "verify_token" =>
    /\ out.code \in {200, 401}
    /\ out.code = 200 <=>
         /\ WasIssued(out.token)
         /\ InBuffer(out.token)
         /\ now <= issued[out.token[1]] + TOKEN_EXPIRY_SEC

\* a token still in the buffer is accepted at its expiry time, to the second
C3_Witness ==
  /\ out.op = "verify_token" /\ out.code = 200
  /\ now = issued[out.token[1]] + TOKEN_EXPIRY_SEC
  /\ now > 0

\* C4: after n get_token calls the buffer holds the min(n, N) most recently
\* issued tokens, oldest first, each with the expiry it was issued with, and
\* never more than N entries.
C4_BufferIsLastN ==
  LET n == Len(issued)
      m == Min(n, N_MAX_VALID_TOKENS)
  IN  /\ Len(TOKEN_BUFFER) = m
      /\ Len(TOKEN_BUFFER) <= N_MAX_VALID_TOKENS
      /\ \A i \in 1..m :
           TOKEN_BUFFER[i] = [token |-> <<n - m + i>>,
                              expires |-> issued[n - m + i] + TOKEN_EXPIRY_SEC]

\* two tokens were evicted before they expired
C4_Witness ==
  /\ Len(issued) = N_MAX_VALID_TOKENS + 2
  /\ now <= issued[1] + TOKEN_EXPIRY_SEC
  /\ ~InBuffer(<<2>>)

\* C5: a recognition that raises or returns nothing is recorded as the
\* entry of its item (the failure placeholder, the empty string), progress
\* is incremented for it, and the runner goes on: while the job is in the
\* store, after n recognitions the runner awaits item n+1 or, with n = k,
\* has finished with status "completed"; the status is never anything but
\* "processing" or "completed".
C5_FailureDoesNotAbort ==
  \A r \in 1..Len(tasks) :
    (InStore(r) /\ tasks[r].predicted # <<>>) =>
      LET n == Len(tasks[r].predicted)
          k == NumItems(r)
      IN  /\ Len(jobs[r].results) = n
          /\ \A i \in 1..n :
               /\ tasks[r].predicted[i] = "raised" =>
                    jobs[r].results[i] = <<tasks[r].files[i], FAILED_TEXT>>
               /\ tasks[r].predicted[i] = "empty" =>
                    jobs[r].results[i] = <<tasks[r].files[i], <<>>>>
          /\ jobs[r].progress =
               IF n = k THEN Float1 ELSE FloatSum(tasks[r].single_progress_step, n)
          /\ jobs[r].progress # Float0
          /\ n < k => tasks[r].pc = "ocr" /\ tasks[r].idx = n + 1
          /\ n = k => tasks[r].pc = "done" /\ jobs[r].status = "completed"
          /\ jobs[r].status \in {"processing", "completed"}

\* item 1 raised, item 2 was empty, and the batch of 3 completed all the same
C5_Witness ==
  /\ Len(tasks) = 1 /\ InStore(1) /\ NumItems(1) = 3
  /\ tasks[1].predicted = <<"raised", "empty", "text">>
  /\ jobs[1].status = "completed"

\* C6: the runner of a job without items completes at once: status
\* "completed", progress 1.0, no results.
C6_EmptyBatchCompletes ==
  \A r \in 1..Len(tasks) :
    (NumItems(r) = 0 /\ tasks[r].pc \notin {"staging", "scheduled"}) =>
      /\ tasks[r].pc = "done"
      /\ InStore(r) =>
           /\ jobs[r].status = "completed"
           /\ jobs[r].progress = Float1
           /\ jobs[r].results = <<>>

\* C7: a runner that has started on its items (it has invoked the
\* recognition of the first) is never aborted.
C7_RunnerNeverAborted ==
  \A r \in 1..Len(tasks) : tasks[r].idx >= 1 => tasks[r].pc # "crashed"

\* C8: when the runner of an upload has started on its items and has ended,
\* none of the upload's staged files is left in storage.
C8_StagedFilesRemoved ==
  \A r \in 1..Len(tasks) :
    (tasks[r].idx >= 1 /\ tasks[r].pc \in {"done", "crashed"}) => StagedOnDisk(r) = {}

\* The progress of every stored job: 0.0 at creation, the sum of one 1/k per
\* processed item until the last, then 1.0; within [0, 1]; i/k (to within
\* 2^-24) after i of k items.  And get_status returns the current progress.
ProgressInv ==
  /\ \A r \in DOMAIN jobs :
       LET i == Len(jobs[r].results)
           k == NumItems(r)
       IN  /\ FloatLe(Float0, jobs[r].progress) /\ FloatLe(jobs[r].progress, Float1)
           /\ i <= k
           /\ k >= 1 =>
                /\ jobs[r].progress =
                     IF i = k THEN Float1 ELSE FloatSum(FloatRecip(k), i)
                /\ FloatNear(jobs[r].progress, i, k)
           /\ k = 0 => jobs[r].progress = Float0
  /\ (out.op = "get_status" /\ out.code = 200) =>
       out.progress = jobs[out.uid].progress

\* C9: the progress of a job never decreases from one state to the next, so
\* neither do the values successive get_status polls return; it changes
\* exactly in the steps that append a result entry, once per processed item,
\* and after i of k items it is i/k (as the float sum of i times 1/k, 1.0
\* for i = k) and lies in [0, 1].
C9_ProgressMonotone ==
  /\ []ProgressInv
  /\ [][\A r \in DOMAIN jobs \cap DOMAIN jobs' :
          /\ FloatLe(jobs[r].progress, jobs'[r].progress)
          /\ Len(jobs'[r].results) = Len(jobs[r].results) + 1 <=>
               jobs'[r].progress # jobs[r].progress]_vars

\* a poll in the middle of a batch of 9 items, whose float sum of nine 1/9
\* is above 1.0
C9_Witness ==
  /\ out.op = "get_status" /\ out.code = 200
  /\ NumItems(out.uid) = 9
  /\ Len(jobs[out.uid].results) = 8
  /\ ~FloatLe(FloatSum(FloatRecip(9), 9), Float1)

\* The status of every stored job is "processing" or "completed", and no
\* "completed" job has fewer than k result entries.
StatusInv ==
  \A r \in DOMAIN jobs :
    /\ jobs[r].status \in {"processing", "completed"}
    /\ jobs[r].status = "completed" => Len(jobs[r].results) = NumItems(r)

\* C10: a job's status is "processing" or "completed"; a new job is
\* "processing"; the status changes only from "processing" to "completed",
\* in the step that appends the k-th result entry, and never back; no
\* "completed" job has fewer than k result entries.
C10_StatusOnce ==
  /\ []StatusInv
  /\ [][/\ \A r \in DOMAIN jobs' \ DOMAIN jobs : jobs'[r].status = "processing"
        /\ \A r \in DOMAIN jobs \cap DOMAIN jobs' :
             /\ jobs[r].status = "completed" => jobs'[r].status = "completed"
             /\ jobs'[r].status # jobs[r].status =>
                  /\ Len(jobs'[r].results) = NumItems(r)
                  /\ Len(jobs[r].results) = NumItems(r) - 1]_vars

\* a job of 9 items is in the store, completed
C10_Witness ==
  /\ InStore(1) /\ NumItems(1) = 9
  /\ jobs[1].status = "completed" /\ Len(jobs[1].results) = 9

\* C11: every state a poll or a fetch can see is a consistent snapshot: the
\* progress of a stored job is the sum of exactly as many increments as it
\* has result entries (1.0 once it has all k), its status is "completed"
\* exactly when it has all k >= 1 entries and then its progress is 1.0, and a
\* get_status response carries the status, progress and message of one such
\* state.
C11_ConsistentSnapshot ==
  /\ \A r \in DOMAIN jobs :
       LET i == Len(jobs[r].results)
           k == NumItems(r)
       IN  /\ i = Len(tasks[r].predicted)
           /\ jobs[r].status = "completed" <=> (k >= 1 /\ i = k)
           /\ jobs[r].status = "completed" <=> jobs[r].progress = Float1
           /\ jobs[r].status = "processing" =>
                jobs[r].progress = FloatSum(tasks[r].single_progress_step, i)
           /\ jobs[r].status = "completed" <=> jobs[r].messages = <<"Completed.">>
  /\ (out.op = "get_status" /\ out.code = 200) =>
       /\ out.status = jobs[out.uid].status
       /\ out.progress = jobs[out.uid].progress
       /\ out.messages = jobs[out.uid].messages
       /\ out.status = "completed" <=> out.progress = Float1

\* a poll while the runner awaits item 4 of 6
C11_Witness ==
  /\ out.op = "get_status" /\ out.code = 200 /\ out.status = "processing"
  /\ tasks[out.uid].pc = "ocr" /\ tasks[out.uid].idx = 4 /\ NumItems(out.uid) = 6
  /\ Len(jobs[out.uid].results) = 3

\* the string is accepted now: issued, still in the buffer, not expired
Accepted(token) ==
  /\ WasIssued(token)
  /\ InBuffer(token)
  /\ now <= issued[token[1]] + TOKEN_EXPIRY_SEC

\* C12: an upload whose token is not in the buffer or has expired is
\* answered 401 and changes nothing: no file, no task, no job, the same
\* buffer; an upload is taken on (its first file staged or its job created)
\* only with a token that is accepted at that time, and a job is created
\* only for an upload taken on.
C12_RejectedUploadNoEffect ==
  /\ [](\A r \in DOMAIN jobs : r \in 1..Len(tasks))
  /\ [][/\ (out'.op = "run_ocr" /\ out'.code = 401) =>
             /\ ~Accepted(out'.token)
             /\ UNCHANGED <<TOKEN_BUFFER, jobs, now, issued, tasks, disk, taken>>
        /\ Len(tasks') # Len(tasks) =>
             /\ Len(tasks') = Len(tasks) + 1
             /\ Accepted(tasks'[Len(tasks')].token)
             /\ ~(out'.op = "run_ocr" /\ out'.code = 401)]_vars

\* an upload with a token that is in the buffer but expired was answered 401
C12_Witness ==
  /\ out.op = "run_ocr" /\ out.code = 401
  /\ InBuffer(out.token) /\ now > issued[out.token[1]] + TOKEN_EXPIRY_SEC
  /\ tasks = <<>> /\ disk = {} /\ DOMAIN jobs = {}

\* C13: get_status is read-only: for an id in the store it answers 200 with
\* the job's current status, progress and message, for any other id (unknown
\* or already consumed) it answers 404, and in both cases the job store, the
\* token buffer, the staged files and the runners are left as they were.
C13_StatusReadOnly ==
  [][out'.op = "get_status" =>
       /\ UNCHANGED <<TOKEN_BUFFER, jobs, now, issued, tasks, disk, taken>>
       /\ IF out'.uid \in DOMAIN jobs
          THEN /\ out'.code = 200
               /\ out'.status = jobs[out'.uid].status
               /\ out'.progress = jobs[out'.uid].progress
               /\ out'.messages = jobs[out'.uid].messages
          ELSE out'.code = 404]_vars

\* a poll for a consumed id whose runner still awaits item 3 of 4
C13_Witness ==
  /\ out.op = "get_status" /\ out.code = 404 /\ out.uid \in taken
  /\ tasks[out.uid].pc = "ocr" /\ tasks[out.uid].idx = 3 /\ NumItems(out.uid) = 4
  /\ DOMAIN jobs = {} /\ Cardinality(disk) = 4

\* C14: expiry is lazy: a validation never changes the token buffer, an
\* expired entry keeps its slot for as long as it is among the last
\* N_MAX_VALID_TOKENS issued, and the buffer changes only in a get_token
\* step, which appends one entry and evicts the oldest when the buffer was full.
C14_LazyExpiry ==
  /\ [](\A j \in 1..Len(issued) :
          j > Len(issued) - N_MAX_VALID_TOKENS =>
            \E n \in 1..Len(TOKEN_BUFFER) :
              /\ TOKEN_BUFFER[n].token = <<j>>
              /\ TOKEN_BUFFER[n].expires = issued[j] + TOKEN_EXPIRY_SEC)
  /\ [][/\ out'.op = "verify_token" => TOKEN_BUFFER' = TOKEN_BUFFER
        /\ TOKEN_BUFFER' # TOKEN_BUFFER =>
             /\ out'.op = "get_token"
             /\ Len(issued') = Len(issued) + 1
             /\ TOKEN_BUFFER'[Len(TOKEN_BUFFER')].token = out'.token
             /\ \A n \in 1..(Len(TOKEN_BUFFER') - 1) :
                  TOKEN_BUFFER'[n] =
                    TOKEN_BUFFER[n + (IF Len(TOKEN_BUFFER) = N_MAX_VALID_TOKENS THEN 1 ELSE 0)]
       ]_vars

\* a full buffer whose oldest entry has expired and was just rejected
C14_Witness ==
  /\ out.op = "verify_token" /\ out.code = 401
  /\ Len(TOKEN_BUFFER) = N_MAX_VALID_TOKENS
  /\ TOKEN_BUFFER[1].token = out.token
  /\ now > TOKEN_BUFFER[1].expires

\* C15: the staged file of an item is deleted before recognition of the
\* next item is invoked, so while the runner awaits item i no staged file of
\* an earlier item exists.
C15_ReleasedPerItem ==
  \A r \in 1..Len(tasks) :
    tasks[r].pc = "ocr" =>
      \A n \in 1..(tasks[r].idx - 1) : tasks[r].file_mappings[n][2] \notin disk

\* C16: the results of a stored job are a prefix of its items in upload
\* order: entry n carries the name of item n and the text of the n-th
\* recognition that returned, there are exactly as many entries as
\* recognitions returned, and while recognition of item i is awaited the
\* message is "Processing <name of item i>." and the entries are those of
\* items 1..i-1.
C16_ResultsArePrefix ==
  \A r \in DOMAIN jobs :
    LET results == jobs[r].results
    IN  /\ Len(results) <= NumItems(r)
        /\ Len(results) = Len(tasks[r].predicted)
        /\ \A n \in 1..Len(results) : results[n][1] = tasks[r].files[n]
        /\ tasks[r].pc = "ocr" =>
             /\ Len(results) = tasks[r].idx - 1
             /\ jobs[r].messages = <<"Processing ", tasks[r].files[tasks[r].idx], ".">>

\* three entries in upload order with two different names, item 4 awaited
C16_Witness ==
  \E r \in DOMAIN jobs :
    /\ tasks[r].pc = "ocr" /\ tasks[r].idx = 4
    /\ Len(jobs[r].results) = 3
    /\ jobs[r].results[1][1] # jobs[r].results[2][1]

\* C17: jobs are isolated: a step that changes the fields of a stored job is
\* a step of that job's own runner, answers no request and leaves every
\* other job and the set of stored ids as they were; a job leaves the store
\* only in the get_results step that returns it, which changes no other job;
\* and every entry of a job's results names one of that job's own items.
C17_JobsIsolated ==
  /\ [](\A u \in DOMAIN jobs : \A n \in 1..Len(jobs[u].results) :
          \E m \in 1..NumItems(u) : jobs[u].results[n][1] = tasks[u].files[m])
  /\ [][\A u \in DOMAIN jobs :
          /\ (u \in DOMAIN jobs' /\ jobs'[u] # jobs[u]) =>
               /\ tasks[u].pc \in {"scheduled", "ocr"}
               /\ tasks'[u] # tasks[u]
               /\ out' = NoResponse
               /\ DOMAIN jobs' = DOMAIN jobs
               /\ \A v \in DOMAIN jobs \ {u} : jobs'[v] = jobs[v] /\ tasks'[v] = tasks[v]
          /\ u \notin DOMAIN jobs' =>
               /\ out'.op = "get_results" /\ out'.code = 200 /\ out'.uid = u
               /\ \A v \in DOMAIN jobs \ {u} : v \in DOMAIN jobs' /\ jobs'[v] = jobs[v]]_vars

\* two runners active at once on uploads with different names, one entry each
C17_Witness ==
  /\ Len(tasks) = 2 /\ DOMAIN jobs = {1, 2}
  /\ tasks[1].pc = "ocr" /\ tasks[2].pc = "ocr"
  /\ tasks[1].files = <<"a.png", "a.png">> /\ tasks[2].files = <<"b.png", "b.png">>
  /\ Len(jobs[1].results) = 1 /\ Len(jobs[2].results) = 1

\* C18: an id enters the store only in the run_ocr step that drew it and
\* answers 202 with it, never an id that get_results has removed; so no step
\* of a runner and no request puts a removed id back, and get_status and
\* get_results for a removed id answer 404.
C18_NeverReinserted ==
  [][/\ \A u \in DOMAIN jobs' \ DOMAIN jobs :
          /\ u \notin taken
          /\ out' = [op |-> "run_ocr", code |-> 202, task_uid |-> u]
          /\ u \in 1..Len(tasks) => tasks[u].pc = "staging"
          /\ tasks'[u].pc = "scheduled"
     /\ \A u \in taken :
          /\ u \notin DOMAIN jobs'
          /\ (out'.op \in {"get_status", "get_results"} /\ out'.uid = u) => out'.code = 404
    ]_vars

\* the runner of a removed job took its next step and the id is still gone
C18_Witness ==
  /\ out.op = "get_status" /\ out.code = 404 /\ out.uid \in taken
  /\ tasks[out.uid].pc = "crashed" /\ tasks[out.uid].error = "KeyError"
  /\ Len(tasks[out.uid].predicted) = 1
  /\ tasks[out.uid].files # <<>>

\* C19: get_results does not look at the status: for every id in the store,
\* a job still "processing" included, it answers 200 with exactly the
\* entries the job has at that moment, one per recognition that returned
\* and in upload order, and the job is removed in the same step.
C19_ResultsAnyStatus ==
  [][\A u \in DOMAIN jobs :
       (out'.op = "get_results" /\ out'.uid = u) =>
         /\ out'.code = 200
         /\ out'.results = jobs[u].results
         /\ Len(out'.results) = Len(tasks[u].predicted)
         /\ \A n \in 1..Len(out'.results) : out'.results[n][1] = tasks[u].files[n]
         /\ u \notin DOMAIN jobs'
         /\ tasks' = tasks /\ disk' = disk]_vars

\* two of five entries were handed out while item 3 was being recognised
C19_Witness ==
  /\ out.op = "get_results" /\ out.code = 200 /\ Len(out.results) = 2
  /\ NumItems(out.uid) = 5
  /\ tasks[out.uid].pc = "ocr" /\ tasks[out.uid].idx = 3

\* the buffer holds the string with an expiry time not yet passed
Valid(token) ==
  \E n \in 1..Len(TOKEN_BUFFER) :
    TOKEN_BUFFER[n].token = token /\ now <= TOKEN_BUFFER[n].expires

\* C20: with a clock that never goes back, a string that is not valid (not
\* in the buffer, or past its expiry) never becomes valid again, for the
\* string nobody issued and for every token issued so far; verify_token
\* answers 200 exactly for a valid string; and an entry keeps the expiry
\* time it was given at issue for as long as it is in the buffer.
C20_ValidityMonotone ==
  [][/\ now' >= now
     /\ \A token \in {<<JUNK>>} \cup {<<j>> : j \in 1..Len(issued)} :
          ~Valid(token) => ~Valid(token)'
     /\ out'.op = "verify_token" => (out'.code = 200 <=> Valid(out'.token))
     /\ \A n \in 1..Len(TOKEN_BUFFER), m \in 1..Len(TOKEN_BUFFER') :
          TOKEN_BUFFER'[m].token = TOKEN_BUFFER[n].token =>
            TOKEN_BUFFER'[m].expires = TOKEN_BUFFER[n].expires
    ]_vars

\* a token is rejected as expired although a token was issued after its expiry
C20_Witness ==
  /\ out.op = "verify_token" /\ out.code = 401 /\ InBuffer(out.token)
  /\ \E j \in 1..Len(issued) :
       /\ j > out.token[1]
       /\ issued[j] > issued[out.token[1]] + TOKEN_EXPIRY_SEC
  /\ Len(TOKEN_BUFFER) < N_MAX_VALID_TOKENS
====
